---- MODULE Spec2Model ----
(***************************************************************************)
(* LlamaEdge-Nexus gateway: the backend registry (AppState.server_group),  *)
(* the capability cache (server_info), the recorded model lists (models),  *)
(* the admin handlers (register / unregister / list) and the kind          *)
(* dispatchers (chat, embeddings, transcribe, translate, tts).             *)
(*                                                                         *)
(* Every request is a task of the async runtime.  A task is suspended only *)
(* at an .await: a network call, an inbound body read, or a lock           *)
(* acquisition.  One action of the model is the code between two           *)
(* suspension points.  The registry write lock is taken and dropped inside *)
(* one statement (main.rs:227-233), so a writer never holds it across a    *)
(* step; the read lock is held across steps by unregister, list and the    *)
(* embeddings dispatcher, which is what `readers` records.                 *)
(***************************************************************************)
EXTENDS Integers, Sequences, FiniteSets, TLC

\* ------------------------------------------------------------- bounds
MaxNonce == 2       \* register requests accepted over a run
MaxSelections == 2  \* selections made over a run (sum of all load counters)

MaxPoints == 2      \* points one vector search returns

Tasks == {"t1", "t2"}

\* ------------------------------------------------------------- kinds
Kinds == {"chat", "embeddings", "image", "tts", "translate", "transcribe"}

\* The order in which register_downstream_server visits the kinds.
KindOrder == <<"chat", "embeddings", "image", "tts", "translate", "transcribe">>

\* Kinds that have a dispatcher in handler.rs.
DispatchKinds == {"chat", "embeddings", "transcribe", "translate", "tts"}

\* Kind sets a register request may declare.
KindSets == {{"chat"}, {"chat", "embeddings"}, {"tts"}, {}}

\* Capability sets a backend's /v1/info may report (kinds whose model
\* descriptor is present).
CapSets == {{"embeddings"}, Kinds}

\* Base urls of the candidate backends; the n-th register request names the
\* n-th of them, so that every descriptor has its own.
Urls == <<"http://b1:9/", "http://b2:9/", "http://b3:9/", "http://b4:9/">>

UrlOf(n) == Urls[IF n <= Len(Urls) THEN n ELSE Len(Urls)]

RECURSIVE SeqOfKinds(_, _)
SeqOfKinds(ks, i) ==
  IF i > Len(KindOrder) THEN <<>>
  ELSE IF KindOrder[i] \in ks THEN <<KindOrder[i]>> \o SeqOfKinds(ks, i + 1)
  ELSE SeqOfKinds(ks, i + 1)

\* Server id: "<kind-tokens>-server-<nonce>", kept as its two segments.
FormatId(ks, n) == [kinds |-> SeqOfKinds(ks, 1), nonce |-> n]

\* Variant: only the first kind token of the id is visited.
KindsOfIdFirst(id) == <<Head(id.kinds)>>

\* unregister: server_id.split("-server-").next().split("-")
KindsOfId(id) == id.kinds

NoId == [kinds |-> <<>>, nonce |-> 0]
NoServer == [id |-> NoId, url |-> "", kind |-> {}, connections |-> 0]
NoResp == [status |-> 0, msg |-> "", headers |-> {}]
NoApiServer == [parsed |-> FALSE, caps |-> {}]

\* ------------------------------------------------------------- state
VARIABLES
  server_group,      \* kind -> [present, servers]: HashMap<ServerKind, ServerGroup>
  server_info,       \* set of [id, caps]: ServerInfo.servers
  models,            \* set of ids with a recorded model list
  readers,           \* tasks holding server_group.read()
  server_info_lock,  \* tasks holding server_info.write()
  nonce,             \* ids handed out so far
  op, pc,            \* per task: the handler it runs and where it is
  arg,               \* per task: the Server of a register, the id of an unregister
  api_server,        \* per task: the ApiServer parsed from /v1/info
  todo,              \* per task: kinds still to visit (register, unregister)
  visited,           \* per task: kinds a list has visited
  listing,           \* per task: the (kind, ids) entries a list has collected
  found,             \* per task: unregister's `found`
  target,            \* per task: the base url a dispatcher forwards to
  resp,              \* per task: the response returned
  hist,              \* history, per kind: the last selection since the pool's
                     \* membership changed; not program state
  held               \* history, per task: the pools that held the id when its
                     \* unregister call started; not program state

\* The RAG pipeline of one chat request (rag.rs).
VARIABLES
  chat_request,         \* the ChatCompletionRequest; messages are rewritten by build
  rag_pc,               \* where rag::chat is
  qdrant_config_vec,    \* the QdrantConfigs of the request
  cfg_idx,              \* the config the retrieval loop is at
  source_set,           \* `set` of retrieve_context_with_multiple_qdrant_configs
  retrieve_object_vec,  \* the RetrieveObjects kept so far (their points)
  calls,                \* the downstream calls made so far, in order
  rag_resp,             \* the response rag::chat returns
  built,                \* history: the arguments of the RagPromptBuilder::build
                        \* call; not program state
  searched              \* history: the scored points every search so far
                        \* returned, one entry per collection; not program state

\* The urls composed for one backend (handler.rs).
VARIABLES
  server_url,   \* the base url of the Server a register request carries
  probe_url,    \* the url verify_server last sent a GET to
  service_url   \* the url a dispatcher last forwarded a request to

gateway == <<server_group, server_info, models, readers, server_info_lock, nonce,
             op, pc, arg, api_server, todo, visited, listing, found, held, target,
             resp, hist>>

rag == <<chat_request, rag_pc, qdrant_config_vec, cfg_idx, source_set,
         retrieve_object_vec, calls, rag_resp, built, searched>>

urls == <<server_url, probe_url, service_url>>

vars == <<gateway, rag, urls>>

registry == <<server_group, server_info, models, hist>>
locks == <<readers, server_info_lock>>
locals == <<arg, api_server, todo, visited, listing, found, held, target>>

NoGroup == [present |-> FALSE, servers |-> <<>>]
NoHist == [id |-> NoId, eq |-> FALSE, since |-> FALSE]

GatewayInit ==
  /\ server_group = [k \in Kinds |-> NoGroup]
  /\ server_info = {}
  /\ models = {}
  /\ readers = {}
  /\ server_info_lock = {}
  /\ nonce = 0
  /\ op = [t \in Tasks |-> "idle"]
  /\ pc = [t \in Tasks |-> "idle"]
  /\ arg = [t \in Tasks |-> NoServer]
  /\ api_server = [t \in Tasks |-> NoApiServer]
  /\ todo = [t \in Tasks |-> <<>>]
  /\ visited = [t \in Tasks |-> {}]
  /\ listing = [t \in Tasks |-> {}]
  /\ found = [t \in Tasks |-> FALSE]
  /\ held = [t \in Tasks |-> {}]
  /\ target = [t \in Tasks |-> ""]
  /\ resp = [t \in Tasks |-> NoResp]
  /\ hist = [k \in Kinds |-> NoHist]

\* Option<T>: None is the empty set, Some(v) is {v}.
None == {}
Some(v) == {v}

NoRequest ==
  [vdb_server_url |-> None, vdb_collection_name |-> None, limit |-> None,
   score_threshold |-> None, context_window |-> None, messages |-> <<>>]

NoBuild ==
  [called |-> FALSE, messages |-> <<>>, context |-> <<>>,
   has_system_prompt |-> FALSE, policy |-> "", rag_prompt |-> None]

\* No RAG request is in the pipeline.
RagIdle ==
  /\ chat_request = NoRequest
  /\ rag_pc = "idle"
  /\ qdrant_config_vec = <<>>
  /\ cfg_idx = 0
  /\ source_set = {}
  /\ retrieve_object_vec = <<>>
  /\ calls = <<>>
  /\ rag_resp = NoResp
  /\ built = NoBuild
  /\ searched = <<>>

\* No url has been composed.
UrlsIdle ==
  /\ server_url = <<>>
  /\ probe_url = <<>>
  /\ service_url = <<>>

Init == GatewayInit /\ RagIdle /\ UrlsIdle

\* ------------------------------------------------------------- helpers
Range(s) == {s[i] : i \in 1..Len(s)}

IdSeq(pool) == [i \in 1..Len(pool) |-> pool[i].id]

Ids(pool) == Range(IdSeq(pool))

Pool(k) == server_group[k].servers

RECURSIVE SumConnections(_)
SumConnections(pool) ==
  IF pool = <<>> THEN 0 ELSE Head(pool).connections + SumConnections(Tail(pool))

RECURSIVE SumOver(_, _)
SumOver(f, ks) ==
  IF ks = {} THEN 0
  ELSE LET k == CHOOSE x \in ks : TRUE IN f[k] + SumOver(f, ks \ {k})

\* The ids of the descriptors the registry holds.
AllIds(sg) == UNION {{sg[k].servers[i].id : i \in 1..Len(sg[k].servers)} : k \in Kinds}

\* The load counter of backend id as the registry has it, 0 for an id that is
\* in no pool.
LoadOf(sg, id) ==
  LET loads == UNION {{sg[k].servers[i].connections :
                         i \in {j \in 1..Len(sg[k].servers) : sg[k].servers[j].id = id}} :
                      k \in Kinds}
  IN IF loads = {} THEN 0 ELSE CHOOSE m \in loads : \A x \in loads : x <= m

\* Selections made so far: every next() adds one to the counter of one
\* backend.
Selections(sg) == SumOver([id \in AllIds(sg) |-> LoadOf(sg, id)], AllIds(sg))

AllEqual(pool) ==
  \A i, j \in 1..Len(pool) : pool[i].connections = pool[j].connections

\* The history of one pool over a step from `old` to `new`: a membership
\* change starts it afresh; a selection (one counter one higher) records the
\* descriptor chosen and whether the loads were equal before it.
HistNext(h, old, new) ==
  IF IdSeq(old) # IdSeq(new)
  THEN [id |-> NoId, eq |-> FALSE, since |-> AllEqual(new)]
  ELSE IF \E i \in 1..Len(old) : new[i].connections = old[i].connections + 1
  THEN LET i == CHOOSE j \in 1..Len(old) :
                  new[j].connections = old[j].connections + 1
       IN [id |-> old[i].id, eq |-> AllEqual(old), since |-> h.since \/ AllEqual(old)]
  ELSE h

Observe ==
  hist' = [k \in Kinds |-> HistNext(hist[k], Pool(k), server_group'[k].servers)]

\* The histories over a selection made on pool k: the history of k records
\* it; a pool that shares the chosen backend sees a load change that is none
\* of its own selections, and its history starts afresh.
ObserveSelection(k) ==
  hist' = [kk \in Kinds |->
             IF kk = k THEN HistNext(hist[kk], Pool(kk), server_group'[kk].servers)
             ELSE IF server_group'[kk].servers # Pool(kk)
             THEN [id |-> NoId, eq |-> FALSE,
                   since |-> AllEqual(server_group'[kk].servers)]
             ELSE hist[kk]]

\* Headers of a JSON response: axum's Json and the handlers' own builders
\* set the content type and nothing else.
JsonHeaders == {<<"content-type", "application/json">>}

\* Headers of the response ServerError::into_response builds:
\* (status, Json(err_response)).into_response().
IntoResponseHeaders == JsonHeaders

\* ServerError::into_response
StatusOf(err) ==
  CASE err = "Operation" -> 500
    [] err = "NotFoundServer" -> 404
    [] OTHER -> 400

Fail(t, err, msg) ==
  /\ resp' = [resp EXCEPT ![t] =
       [status |-> StatusOf(err), msg |-> msg, headers |-> IntoResponseHeaders]]
  /\ pc' = [pc EXCEPT ![t] = "done"]

Ok(t, msg) ==
  /\ resp' = [resp EXCEPT ![t] = [status |-> 200, msg |-> msg, headers |-> JsonHeaders]]
  /\ pc' = [pc EXCEPT ![t] = "done"]

\* The handler has returned; the task is free for the next request.
Finish(t) ==
  /\ pc[t] = "done"
  /\ op' = [op EXCEPT ![t] = "idle"]
  /\ pc' = [pc EXCEPT ![t] = "idle"]
  /\ arg' = [arg EXCEPT ![t] = NoServer]
  /\ api_server' = [api_server EXCEPT ![t] = NoApiServer]
  /\ todo' = [todo EXCEPT ![t] = <<>>]
  /\ visited' = [visited EXCEPT ![t] = {}]
  /\ listing' = [listing EXCEPT ![t] = {}]
  /\ found' = [found EXCEPT ![t] = FALSE]
  /\ held' = [held EXCEPT ![t] = {}]
  /\ target' = [target EXCEPT ![t] = ""]
  /\ resp' = [resp EXCEPT ![t] = NoResp]
  /\ UNCHANGED <<registry, locks, nonce>>

\* ------------------------------------------------------------- register
\* The handler's condition for calling verify_server: the kind holds one of
\* the six flags.
NeedsVerify(kind) == kind \cap Kinds # {}

\* POST /admin/servers/register: the body is deserialized into a Server,
\* which carries its assigned id; the handler then starts verify_server
\* with GET {url}/v1/info.  With no kind flag set verify_server is skipped,
\* register_downstream_server enters none of its blocks and returns Ok, and
\* the handler answers 200 without having suspended.
StartRegister(t, ks, u) ==
  /\ pc[t] = "idle"
  /\ nonce < MaxNonce
  /\ nonce' = nonce + 1
  /\ op' = [op EXCEPT ![t] = "register"]
  /\ IF NeedsVerify(ks)
     THEN /\ pc' = [pc EXCEPT ![t] = "info"]
          /\ UNCHANGED resp
     ELSE Ok(t, "registered")
  /\ arg' = [arg EXCEPT ![t] =
       [id |-> FormatId(ks, nonce + 1), url |-> u, kind |-> ks, connections |-> 0]]
  /\ UNCHANGED <<registry, locks, api_server, todo, visited, listing, found, held,
                 target>>

\* Variant: only the chat descriptor is checked.
MissingModelsChatOnly(kind, caps) == (kind \cap {"chat"}) \ caps

\* verify_server's kind check: the declared kinds whose model descriptor
\* the info response lacks.
MissingModels(kind, caps) == kind \ caps

\* The message of the first failing check, in the order of the code.
KindCheckMsg(missing) ==
  CASE "chat" \in missing -> "the server does not support chat"
    [] "embeddings" \in missing -> "the server does not support embeddings"
    [] "image" \in missing -> "the server does not support image"
    [] "tts" \in missing -> "the server does not support tts"
    [] "translate" \in missing -> "the server does not support translate"
    [] OTHER -> "the server does not support transcribe"

InfoOutcomes == {"unreachable", "status", "badjson", "ok"}

\* The /v1/info call completes: transport error, non-2xx, unparsable body,
\* or a parsed ApiServer that then goes through the kind check.
InfoResponse(t, outcome, caps) ==
  /\ op[t] = "register" /\ pc[t] = "info"
  /\ CASE outcome \in {"unreachable", "status"} ->
            /\ Fail(t, "Operation", "Failed to verify the downstream server")
            /\ UNCHANGED api_server
       [] outcome = "badjson" ->
            /\ Fail(t, "Operation", "Failed to parse the server info")
            /\ UNCHANGED api_server
       [] OTHER ->
            /\ api_server' = [api_server EXCEPT ![t] = [parsed |-> TRUE, caps |-> caps]]
            /\ IF MissingModels(arg[t].kind, caps) # {}
               THEN Fail(t, "Operation", KindCheckMsg(MissingModels(arg[t].kind, caps)))
               ELSE /\ pc' = [pc EXCEPT ![t] = "info_lock"]
                    /\ UNCHANGED resp
  /\ UNCHANGED <<registry, locks, nonce, op, arg, todo, visited, listing, found, held, target>>

\* server_info.servers.insert(server_id, api_server)
InsertInfo(info, id, caps) ==
  {e \in info : e.id # id} \cup {[id |-> id, caps |-> caps]}

\* state.server_info.write().await is granted; the entry is inserted and
\* GET {url}/v1/models is sent with the guard still alive.
UpdateServerInfo(t) ==
  /\ op[t] = "register" /\ pc[t] = "info_lock"
  /\ server_info_lock = {}
  /\ server_info_lock' = {t}
  /\ server_info' = InsertInfo(server_info, arg[t].id, api_server[t].caps)
  /\ pc' = [pc EXCEPT ![t] = "models"]
  /\ UNCHANGED <<server_group, hist, models, readers, nonce, op, arg, api_server,
                 todo, visited, listing, found, held, target, resp>>

ModelsOutcomes == {"unreachable", "badjson", "ok"}

\* Variant: the server_info guard outlives verify_server.
DropGuardKept(guards, t) == guards

\* verify_server returns: the guard bound by `let server_info = &mut ...`
\* goes out of scope.
DropGuard(guards, t) == guards \ {t}

\* The /v1/models call completes.  verify_server returns on every path, so
\* the server_info guard is dropped.  On success the model list is recorded
\* and the handler goes on to register_downstream_server.
ModelsResponse(t, outcome) ==
  /\ op[t] = "register" /\ pc[t] = "models"
  /\ server_info_lock' = DropGuard(server_info_lock, t)
  /\ CASE outcome = "unreachable" ->
            /\ Fail(t, "Operation", "Failed to get the models from the downstream server")
            /\ UNCHANGED <<models, todo>>
       [] outcome = "badjson" ->
            /\ Fail(t, "Operation", "Failed to parse the models")
            /\ UNCHANGED <<models, todo>>
       [] OTHER ->
            /\ models' = models \cup {arg[t].id}
            /\ todo' = [todo EXCEPT ![t] = SeqOfKinds(arg[t].kind, 1)]
            /\ pc' = [pc EXCEPT ![t] = "register"]
            /\ UNCHANGED resp
  /\ UNCHANGED <<server_group, hist, server_info, readers, nonce, op, arg,
                 api_server, visited, listing, found, held, target>>

\* ServerGroup::register: push the descriptor at the end of the pool.
GroupRegister(group, server) ==
  [present |-> TRUE, servers |-> Append(group.servers, server)]

\* server.clone(): the descriptor a pool is given shares the load counter of
\* the descriptors the other pools were given.
CloneOf(sg, server) == [server EXCEPT !.connections = LoadOf(sg, server.id)]

\* Variant: the tts block inserts into the image pool.
RegisterIntoPasted(sg, k, server) ==
  [sg EXCEPT ![IF k = "tts" THEN "image" ELSE k] = GroupRegister(@, CloneOf(sg, server))]

\* entry(K).or_insert(ServerGroup::new(K)).register(server.clone())
RegisterInto(sg, k, server) == [sg EXCEPT ![k] = GroupRegister(@, CloneOf(sg, server))]

\* One `if server.kind.contains(K)` block of register_downstream_server:
\* server_group.write().await, entry(K).or_insert(..).register(server.clone()).
\* The write guard is a temporary of the statement; after the last block the
\* handler builds the 200 response without suspending.
RegisterKind(t) ==
  /\ op[t] = "register" /\ pc[t] = "register"
  /\ readers = {}
  /\ todo[t] # <<>>
  /\ server_group' = RegisterInto(server_group, Head(todo[t]), arg[t])
  /\ Observe
  /\ todo' = [todo EXCEPT ![t] = Tail(@)]
  /\ IF Tail(todo[t]) = <<>>
     THEN Ok(t, "registered")
     ELSE UNCHANGED <<pc, resp>>
  /\ UNCHANGED <<server_info, models, locks, nonce, op, arg, api_server, visited,
                 listing, found, held, target>>

\* ------------------------------------------------------------- unregister
\* Ids that have been in a pool, so that a list() or a register response can
\* have shown them to a client: verified ids, but for one whose registration
\* has not yet inserted anything.
EverPooled ==
  {id \in models :
     ~\E t \in Tasks : /\ op[t] = "register" /\ pc[t] = "register"
                       /\ arg[t].id = id
                       /\ todo[t] = SeqOfKinds(arg[t].kind, 1)}

\* An id whose kind prefix has a token that names no kind.
MalformedIds == {[kinds |-> <<"chat", "audio">>, nonce |-> 0]}

\* Ids a client may send: ids it can have seen, well-formed ids that were
\* never handed out, and malformed ids.  Every such id starts with one kind
\* token at least.
KnownIds ==
  EverPooled \cup {FormatId(ks, 0) : ks \in KindSets \ {{}}} \cup MalformedIds

\* POST /admin/servers/unregister: the kinds are parsed from the id and
\* server_group.read().await is taken for the whole loop.
StartUnregister(t, id) ==
  /\ pc[t] = "idle"
  /\ op' = [op EXCEPT ![t] = "unregister"]
  /\ pc' = [pc EXCEPT ![t] = "unregister"]
  /\ arg' = [arg EXCEPT ![t] = [NoServer EXCEPT !.id = id]]
  /\ todo' = [todo EXCEPT ![t] = KindsOfId(id)]
  /\ readers' = readers \cup {t}
  /\ held' = [held EXCEPT ![t] = {k \in Kinds : id \in Ids(Pool(k))}]
  /\ UNCHANGED <<registry, server_info_lock, nonce, api_server, visited, listing,
                 found, target, resp>>

\* ServerGroup::unregister: drop the descriptor with that id from the pool.
GroupUnregister(group, id) ==
  [group EXCEPT !.servers = SelectSeq(@, LAMBDA s : s.id # id)]

\* `if let Some(group) = group_map.get(&kind) { group.unregister(id) }`
UnregisterFrom(sg, k, id) ==
  IF sg[k].present THEN [sg EXCEPT ![k] = GroupUnregister(@, id)] ELSE sg

\* The result of unregister_downstream_server once the loop is over.
UnregisterResult(t, fnd) ==
  IF fnd THEN Ok(t, "Server unregistered successfully.")
  ELSE Fail(t, "Operation", "Server not found")

\* ServerKind::from_str succeeds on the six kind names.
FromStrOk(token) == token \in Kinds

\* What a client gets when the task serving its request panics: the
\* connection is closed and no response is written.
Panicked == [status |-> 0, msg |-> "panicked", headers |-> {}]

\* One iteration of `for kind in kinds`: the token is parsed and the result
\* unwrapped, which panics on a token that is no kind; a pool that exists is
\* asked to unregister the id and `found` is set.  After the last iteration
\* the read guard is dropped and the handler returns.
UnregisterKind(t) ==
  /\ op[t] = "unregister" /\ pc[t] = "unregister"
  /\ todo[t] # <<>>
  /\ IF ~FromStrOk(Head(todo[t]))
     THEN /\ resp' = [resp EXCEPT ![t] = Panicked]
          /\ pc' = [pc EXCEPT ![t] = "done"]
          /\ readers' = readers \ {t}
          /\ UNCHANGED <<server_group, hist, found, held, todo>>
     ELSE LET k == Head(todo[t])
              hit == server_group[k].present
              fnd == found[t] \/ hit
          IN /\ server_group' = UnregisterFrom(server_group, k, arg[t].id)
             /\ Observe
             /\ found' = [found EXCEPT ![t] = fnd]
             /\ UNCHANGED held
             /\ todo' = [todo EXCEPT ![t] = Tail(@)]
             /\ IF Tail(todo[t]) = <<>>
                THEN /\ readers' = readers \ {t}
                     /\ UnregisterResult(t, fnd)
                ELSE UNCHANGED <<readers, pc, resp>>
  /\ UNCHANGED <<server_info, models, server_info_lock, nonce, op, arg, api_server,
                 visited, listing, target>>

\* ------------------------------------------------------------- list
PresentKinds == {k \in Kinds : server_group[k].present}

\* ServerGroup::is_empty
GroupIsEmpty(group) == group.servers = <<>>

\* The clones list_downstream_servers collects for one pool.
Snapshot(group) == group.servers

\* The entry list_downstream_servers inserts for a pool.
ListEntry(k, group) ==
  IF GroupIsEmpty(group) THEN {} ELSE {<<k, Snapshot(group)>>}

\* POST /admin/servers: server_group.read().await, then the iteration over
\* the map starts; with an empty map the handler returns at once.
StartList(t) ==
  /\ pc[t] = "idle"
  /\ op' = [op EXCEPT ![t] = "list"]
  /\ IF PresentKinds = {}
     THEN /\ Ok(t, "servers")
          /\ UNCHANGED readers
     ELSE /\ pc' = [pc EXCEPT ![t] = "list"]
          /\ readers' = readers \cup {t}
          /\ UNCHANGED resp
  /\ UNCHANGED <<registry, server_info_lock, nonce, arg, api_server, todo, visited,
                 listing, found, held, target>>

\* The end of the iteration for kind k: the loop goes on, or after the last
\* kind the guard is dropped and the handler returns the collected map.
ListIterated(t, k) ==
  /\ visited' = [visited EXCEPT ![t] = @ \cup {k}]
  /\ IF PresentKinds \ visited[t] = {k}
     THEN /\ readers' = readers \ {t}
          /\ Ok(t, "servers")
     ELSE /\ pc' = [pc EXCEPT ![t] = "list"]
          /\ UNCHANGED <<readers, resp>>

\* One iteration of `for (kind, group) in servers.iter()`, in the map's
\* (arbitrary) order, up to `if !group.is_empty().await`: an empty pool is
\* skipped, for another the task goes on to group.servers.read().await.
ListKind(t, k) ==
  /\ op[t] = "list" /\ pc[t] = "list"
  /\ k \in PresentKinds \ visited[t]
  /\ IF GroupIsEmpty(server_group[k])
     THEN /\ ListIterated(t, k)
          /\ UNCHANGED todo
     ELSE /\ pc' = [pc EXCEPT ![t] = "list_read"]
          /\ todo' = [todo EXCEPT ![t] = <<k>>]
          /\ UNCHANGED <<visited, readers, resp>>
  /\ UNCHANGED <<registry, server_info_lock, nonce, op, arg, api_server, listing,
                 found, held, target>>

\* group.servers.read().await is granted: the descriptors the pool holds now
\* are cloned and inserted under the kind.
ListRead(t) ==
  /\ op[t] = "list" /\ pc[t] = "list_read"
  /\ LET k == Head(todo[t])
     IN /\ listing' = [listing EXCEPT ![t] = @ \cup {<<k, Snapshot(server_group[k])>>}]
        /\ ListIterated(t, k)
  /\ todo' = [todo EXCEPT ![t] = <<>>]
  /\ UNCHANGED <<registry, server_info_lock, nonce, op, arg, api_server, found,
                 held, target>>

\* ------------------------------------------------------------- dispatch
\* RoutingPolicy::next on a pool: least connections, first in pool order
\* among equals.
MinConnections(pool) ==
  CHOOSE m \in {pool[i].connections : i \in 1..Len(pool)} :
    \A i \in 1..Len(pool) : m <= pool[i].connections

NextIndex(pool) ==
  CHOOSE i \in 1..Len(pool) :
    /\ pool[i].connections = MinConnections(pool)
    /\ \A j \in 1..(i - 1) : pool[j].connections # MinConnections(pool)

\* The pool after next(): the chosen descriptor's connections grow by one.
AfterNext(pool) ==
  [pool EXCEPT ![NextIndex(pool)].connections = @ + 1]

\* Variant: every pool has a counter of its own for the backend.
ShareLoadNone(sg, k, id) == sg

\* The load counter of a backend is one quantity for all the pools that hold
\* it: what next() on pool k did to the counter of id shows in every pool.
ShareLoad(sg, k, id) ==
  LET pool == sg[k].servers
      load == pool[CHOOSE i \in 1..Len(pool) : pool[i].id = id].connections
  IN [kk \in Kinds |->
        [sg[kk] EXCEPT !.servers =
           [j \in 1..Len(sg[kk].servers) |->
              IF sg[kk].servers[j].id = id
              THEN [sg[kk].servers[j] EXCEPT !.connections = load]
              ELSE sg[kk].servers[j]]]]

\* Variant: the chat handler looks up the embeddings pool.
DispatchKindSwapped(handler) == IF handler = "chat" THEN "embeddings" ELSE handler

\* The ServerKind a handler looks up in server_group.
DispatchKind(handler) == handler

NoServerMsg(k) ==
  CASE k = "chat" -> "No chat server available"
    [] k = "embeddings" -> "No embeddings server available"
    [] k = "transcribe" -> "No transcribe server available"
    [] k = "translate" -> "No translate server available"
    [] OTHER -> "No tts server available"

NextFailedMsg(k) ==
  CASE k = "chat" -> "Failed to get the chat server"
    [] k = "embeddings" -> "Failed to get the embeddings server"
    [] k = "transcribe" -> "Failed to get the transcribe server"
    [] k = "translate" -> "Failed to get the translate server"
    [] OTHER -> "Failed to get the tts server"

\* The error a dispatcher returns when the map has no pool for its kind.
NoPoolError == "Operation"

\* The error a dispatcher returns when next() fails.
NextError == "Operation"

\* `servers.get(&kind)` then `next().await` of handler h: without a pool or
\* with an empty one the handler returns an error; otherwise next() picks a
\* descriptor and the handler goes on as `go` says.
Select(t, h, go) ==
  LET k == DispatchKind(h) IN
  IF ~server_group[k].present
  THEN /\ Fail(t, NoPoolError, NoServerMsg(h))
       /\ UNCHANGED <<server_group, hist, target, readers>>
  ELSE IF Pool(k) = <<>>
  THEN /\ Fail(t, NextError, NextFailedMsg(h))
       /\ UNCHANGED <<server_group, hist, target, readers>>
  ELSE /\ Selections(server_group) < MaxSelections
       /\ server_group' = ShareLoad([server_group EXCEPT ![k].servers = AfterNext(@)],
                                    k, Pool(k)[NextIndex(Pool(k))].id)
       /\ ObserveSelection(k)
       /\ target' = [target EXCEPT ![t] = Pool(k)[NextIndex(Pool(k))].url]
       /\ go

\* chat: the guard lives in the block that computes the base url; the
\* request is then sent to the downstream server.
StartChat(t) ==
  /\ pc[t] = "idle"
  /\ op' = [op EXCEPT ![t] = "chat"]
  /\ Select(t, "chat", /\ pc' = [pc EXCEPT ![t] = "send"]
                       /\ UNCHANGED <<resp, readers>>)
  /\ UNCHANGED <<server_info, models, server_info_lock, nonce, arg, api_server,
                 todo, visited, listing, found, held>>

AudioKinds == {"transcribe", "translate", "tts"}

\* audio_transcriptions_handler, audio_translations_handler,
\* audio_tts_handler, entered directly (no route of main names them): as
\* chat, then the inbound body is read.
StartAudio(t, h) ==
  /\ pc[t] = "idle"
  /\ op' = [op EXCEPT ![t] = h]
  /\ Select(t, h, /\ pc' = [pc EXCEPT ![t] = "inbody"]
                  /\ UNCHANGED <<resp, readers>>)
  /\ UNCHANGED <<server_info, models, server_info_lock, nonce, arg, api_server,
                 todo, visited, listing, found, held>>

\* The tasks holding the registry read guard once embeddings_handler has its
\* base url: `servers` is a local of the function body, alive until return.
EmbeddingsGuard(rs, t) == rs \cup {t}

\* embeddings_handler: selection, then the Content-Type header is required,
\* then the request is sent.
StartEmbeddings(t, has_content_type) ==
  /\ pc[t] = "idle"
  /\ op' = [op EXCEPT ![t] = "embeddings"]
  /\ Select(t, "embeddings",
            IF has_content_type
            THEN /\ pc' = [pc EXCEPT ![t] = "send"]
                 /\ readers' = EmbeddingsGuard(readers, t)
                 /\ UNCHANGED resp
            ELSE /\ Fail(t, "Operation", "Missing Content-Type header")
                 /\ UNCHANGED readers)
  /\ UNCHANGED <<server_info, models, server_info_lock, nonce, arg, api_server,
                 todo, visited, listing, found, held>>

\* hyper::body::to_bytes(req.into_body()).await of the audio handlers.
InBodyDone(t, ok) ==
  /\ op[t] \in AudioKinds /\ pc[t] = "inbody"
  /\ IF ok
     THEN /\ pc' = [pc EXCEPT ![t] = "send"]
          /\ UNCHANGED resp
     ELSE Fail(t, "Operation", "Failed to convert the request body into bytes")
  /\ UNCHANGED <<registry, locks, nonce, op, locals>>

\* Variant: the dispatcher gives the connection back when the call is over.
AfterForwardRelease(sg, k, url) ==
  LET pool == sg[k].servers
      busy == {i \in 1..Len(pool) : pool[i].url = url /\ pool[i].connections > 0}
  IN IF busy = {} THEN sg
     ELSE LET i == CHOOSE x \in busy : \A y \in busy : x <= y
          IN [sg EXCEPT ![k].servers[i].connections = @ - 1]

\* What a dispatcher does to the registry once the downstream call is over
\* (response relayed, or the forward failed): nothing.
AfterForward(sg, k, url) == sg

\* send().await completes; on an error the handler returns and its locals
\* are dropped.
SendDone(t, ok) ==
  /\ op[t] \in DispatchKinds /\ pc[t] = "send"
  /\ IF ok
     THEN /\ pc' = [pc EXCEPT ![t] = "body"]
          /\ UNCHANGED <<resp, readers, server_group, hist>>
     ELSE /\ Fail(t, "Operation", "Failed to forward the request to the downstream server")
          /\ readers' = readers \ {t}
          /\ server_group' = AfterForward(server_group, DispatchKind(op[t]), target[t])
          /\ Observe
  /\ UNCHANGED <<server_info, models, server_info_lock, nonce, op, locals>>

Statuses == {200, 503}

\* request.stream of a chat request.
Streams == {None, Some(FALSE), Some(TRUE)}

\* Only a chat request has the field.
StreamsOf(h) == IF h = "chat" THEN Streams ELSE {None}

\* The headers a downstream server may answer with.
DownstreamHeaders ==
  {{<<"content-type", "audio/wav">>}, {<<"content-type", "text/plain">>}}

\* A speech backend declares the type of its audio or of its error text;
\* the other backends are taken to declare text/plain.
HeadersOf(h) ==
  IF h = "tts" THEN DownstreamHeaders ELSE {{<<"content-type", "text/plain">>}}

EventStreamHeaders == {<<"content-type", "text/event-stream">>}

\* Variant: every relayed response is declared application/json.
RelayedHeadersJson(h, stream, ds_headers) == JsonHeaders

\* The headers of a relayed response: chat sets text/event-stream for
\* stream == Some(true) and application/json otherwise; audio_tts_handler
\* copies the downstream headers; the other handlers set application/json.
RelayedHeaders(h, stream, ds_headers) ==
  IF h = "chat" THEN (IF stream = Some(TRUE) THEN EventStreamHeaders ELSE JsonHeaders)
  ELSE IF h = "tts" THEN ds_headers
  ELSE JsonHeaders

\* bytes().await completes; the response relays the downstream status.
BodyDone(t, ok, status, stream, ds_headers) ==
  /\ op[t] \in DispatchKinds /\ pc[t] = "body"
  /\ IF ok
     THEN /\ resp' = [resp EXCEPT ![t] =
               [status |-> status, msg |-> "relayed",
                headers |-> RelayedHeaders(op[t], stream, ds_headers)]]
          /\ pc' = [pc EXCEPT ![t] = "done"]
     ELSE Fail(t, "Operation", "Failed to get the full response as bytes")
  /\ readers' = readers \ {t}
  /\ server_group' = AfterForward(server_group, DispatchKind(op[t]), target[t])
  /\ Observe
  /\ UNCHANGED <<server_info, models, server_info_lock, nonce, op, locals>>

\* ------------------------------------------------------------- router
\* POST paths a client may ask for.
Paths ==
  {"/v1/chat/completions", "/v1/embeddings", "/v1/models",
   "/v1/audio/transcriptions", "/v1/audio/translations", "/v1/audio/speech",
   "/v1/images/generations", "/v1/images/edits",
   "/admin/servers/register", "/admin/servers/unregister", "/admin/servers"}

\* The Router of main: the handler of a path, "" when no route has the path.
Route(path) ==
  CASE path = "/v1/chat/completions" -> "chat_handler"
    [] path = "/v1/models" -> "embeddings_handler"
    [] path = "/admin/servers/register" -> "register_downstream_server_handler"
    [] path = "/admin/servers/unregister" -> "remove_downstream_server_handler"
    [] path = "/admin/servers" -> "list_downstream_servers_handler"
    [] OTHER -> ""

\* A path without a route: the router answers 404 itself, no handler runs.
NotRouted(t) ==
  /\ pc[t] = "idle"
  /\ op' = [op EXCEPT ![t] = "not_routed"]
  /\ pc' = [pc EXCEPT ![t] = "done"]
  /\ resp' = [resp EXCEPT ![t] = [status |-> 404, msg |-> "", headers |-> {}]]
  /\ UNCHANGED <<registry, locks, nonce, arg, api_server, todo, visited, listing,
                 found, target, hist, held>>

\* A POST request on path arrives at the router.
Request(t, path) ==
  \/ /\ Route(path) = "chat_handler"
     /\ StartChat(t) /\ UNCHANGED <<rag, urls>>
  \/ /\ Route(path) = "embeddings_handler"
     /\ \E ct \in BOOLEAN : StartEmbeddings(t, ct) /\ UNCHANGED <<rag, urls>>
  \/ /\ Route(path) = "register_downstream_server_handler"
     /\ \E ks \in KindSets : StartRegister(t, ks, UrlOf(nonce + 1)) /\ UNCHANGED <<rag, urls>>
  \/ /\ Route(path) = "remove_downstream_server_handler"
     /\ \E id \in KnownIds : StartUnregister(t, id) /\ UNCHANGED <<rag, urls>>
  \/ /\ Route(path) = "list_downstream_servers_handler"
     /\ StartList(t) /\ UNCHANGED <<rag, urls>>
  \/ /\ Route(path) = ""
     /\ NotRouted(t) /\ UNCHANGED <<rag, urls>>

\* ------------------------------------------------------------- rag
\* Texts are sequences of tokens, so that trimming and joining can be done
\* as the code does them.
\* A user message is of text content (ChatCompletionUserMessageContent::Text)
\* or of content parts; the other messages are of text content.
User(text) == [role |-> "user", is_text |-> TRUE, content |-> text]
UserParts(parts) == [role |-> "user", is_text |-> FALSE, content |-> parts]
System(text) == [role |-> "system", is_text |-> TRUE, content |-> text]
Assistant(text) == [role |-> "assistant", is_text |-> TRUE, content |-> text]

Sentinel == "<server-health>"

\* The messages arrays a request may carry.
MessageLists ==
  {<<>>,
   <<User(<<"q">>)>>,
   <<System(<<" ", "s">>), User(<<"q", "\n">>)>>,
   <<User(<<"q">>), Assistant(<<"a">>)>>,
   <<User(<<"q1">>), Assistant(<<"a">>), User(<<"q2">>)>>,
   <<User(<<"q1">>), User(<<"h", Sentinel>>)>>,
   <<User(<<"h", Sentinel>>), User(<<"q2">>)>>,
   <<User(<<"q">>), UserParts(<<"image">>)>>}

\* The per-request vector-DB fields a request may carry.
VdbUrls == {None, Some("http://vdb:6333")}
CollectionNames == {None, Some(<<>>), Some(<<"c1">>), Some(<<"c1", "c2">>)}
Limits == {None, Some(<<>>), Some(<<5>>), Some(<<5, 5>>)}
ScoreThresholds == {None, Some(<<>>), Some(<<50>>), Some(<<50, 50>>)}

\* chat_request.context_window
RequestWindows == {None, Some(0), Some(2)}

ChatRequests ==
  [vdb_server_url : VdbUrls, vdb_collection_name : CollectionNames,
   limit : Limits, score_threshold : ScoreThresholds,
   context_window : RequestWindows, messages : MessageLists]

\* config.rag.vector_db.collection_name values the configuration may hold.
VectorDbs == {<<>>, <<"c1">>}

Unwrap(opt) == CHOOSE v \in opt : TRUE

\* get_qdrant_configs: the configs, or the error it returns.
GetQdrantConfigs(req, vector_db) ==
  IF /\ req.vdb_server_url # None /\ req.vdb_collection_name # None
     /\ req.limit # None /\ req.score_threshold # None
  THEN LET collection_name == Unwrap(req.vdb_collection_name)
           limit == Unwrap(req.limit)
           score_threshold == Unwrap(req.score_threshold)
       IN IF \/ Len(collection_name) # Len(limit)
             \/ Len(collection_name) # Len(score_threshold)
          THEN [err |-> "Operation", configs |-> <<>>]
          ELSE [err |-> "",
                configs |-> [i \in 1..Len(collection_name) |->
                               [url |-> Unwrap(req.vdb_server_url),
                                collection_name |-> collection_name[i],
                                limit |-> limit[i],
                                score_threshold |-> score_threshold[i]]]]
  ELSE IF /\ req.vdb_server_url = None /\ req.vdb_collection_name = None
          /\ req.limit = None /\ req.score_threshold = None
  THEN [err |-> "",
        configs |-> [i \in 1..Len(vector_db) |->
                       [url |-> "http://vdb:6333", collection_name |-> vector_db[i],
                        limit |-> 5, score_threshold |-> 50]]]
  ELSE [err |-> "Operation", configs |-> <<>>]

\* The error rag::chat returns when get_qdrant_configs fails.
ConfigError == "Operation"

RagFail(err, msg) ==
  /\ rag_resp' = [status |-> StatusOf(err), msg |-> msg, headers |-> IntoResponseHeaders]
  /\ rag_pc' = "done"

\* rag::chat up to the retrieval loop: get_qdrant_configs with the
\* configuration as it is now.
RagConfigs(vector_db) ==
  /\ rag_pc = "start"
  /\ LET r == GetQdrantConfigs(chat_request, vector_db)
     IN IF r.err # ""
        THEN /\ RagFail(ConfigError, "Failed to get the VectorDB config")
             /\ UNCHANGED <<qdrant_config_vec, cfg_idx>>
        ELSE /\ qdrant_config_vec' = r.configs
             /\ cfg_idx' = 1
             /\ rag_pc' = "retrieve"
             /\ UNCHANGED rag_resp
  /\ UNCHANGED <<chat_request, source_set, retrieve_object_vec, calls, built, searched>>

\* A downstream call rag::chat makes, with what it carries.
Call(to, body) == [to |-> to, body |-> body]

EndsWithSentinel(text) == text # <<>> /\ text[Len(text)] = Sentinel

\* text.trim_end_matches("<server-health>")
RECURSIVE TrimSentinel(_)
TrimSentinel(text) ==
  IF EndsWithSentinel(text) THEN TrimSentinel(SubSeq(text, 1, Len(text) - 1))
  ELSE text

\* Variant: a sentinel-terminated text is taken wherever it stands.
MostRecentAny(idx) == TRUE

\* `else if idx == 0`: the message is the most recent one of the array.
MostRecent(idx) == idx = 0

\* The walk over chat_request.messages.iter().rev().enumerate(): msgs is what
\* is left to visit (last message first), idx the position, acc the texts
\* collected, n the context window.
RECURSIVE LastUserMessages(_, _, _, _)
LastUserMessages(msgs, idx, acc, n) ==
  IF msgs = <<>> THEN acc
  ELSE LET m == Head(msgs)
           text == m.role = "user" /\ m.is_text
           health == text /\ EndsWithSentinel(m.content)
           acc2 == IF ~text THEN acc
                   ELSE IF ~health THEN Append(acc, m.content)
                   ELSE IF MostRecent(idx) THEN Append(acc, TrimSentinel(m.content))
                   ELSE acc
       IN IF (health /\ MostRecent(idx)) \/ Len(acc2) = n THEN acc2
          ELSE LastUserMessages(Tail(msgs), idx + 1, acc2, n)

Reverse(seq) == [i \in 1..Len(seq) |-> seq[Len(seq) + 1 - i]]

\* texts.join(sep)
RECURSIVE Join(_, _)
Join(texts, sep) ==
  IF texts = <<>> THEN <<>>
  ELSE IF Len(texts) = 1 THEN texts[1]
  ELSE texts[1] \o <<sep>> \o Join(Tail(texts), sep)

\* The texts of the query, oldest first; empty when no user message is found.
QueryTexts(messages, context_window) ==
  Reverse(LastUserMessages(Reverse(messages), 0, <<>>, context_window))

\* Variant: the loop stops after the first config.
MoreConfigsFirst(idx, configs) == idx <= 1 /\ idx <= Len(configs)

\* `for qdrant_config in qdrant_config_vec`: a config is left to process.
MoreConfigs(idx, configs) == idx <= Len(configs)

\* config.rag.context_window
ContextWindows == {1, 2}

\* chat_request.context_window.or(Some(config_ctx_window)).unwrap_or(1)
ContextWindowOf(request_window, config_ctx_window) ==
  IF request_window # None THEN Unwrap(request_window) ELSE config_ctx_window

\* The head of retrieve_context_with_multiple_qdrant_configs' loop.  When
\* configs are left, retrieve_context_with_single_qdrant_config starts for
\* the next one: empty messages and a query without user text are refused,
\* otherwise embeddings_handler is called with the query.  When none is left
\* the function returns and rag::chat goes on to the context.
RagRetrieve(config_ctx_window) ==
  /\ rag_pc = "retrieve"
  /\ LET context_window == ContextWindowOf(chat_request.context_window, config_ctx_window)
         query == QueryTexts(chat_request.messages, context_window)
     IN IF ~MoreConfigs(cfg_idx, qdrant_config_vec)
        THEN /\ rag_pc' = "merge"
             /\ UNCHANGED <<calls, rag_resp>>
        ELSE IF chat_request.messages = <<>>
        THEN /\ RagFail("BadRequest", "Found empty chat messages")
             /\ UNCHANGED calls
        ELSE IF query = <<>>
        THEN /\ RagFail("BadRequest", "No user messages found.")
             /\ UNCHANGED calls
        ELSE /\ calls' = Append(calls, Call("embeddings", Join(query, "\n")))
             /\ rag_pc' = "embed"
             /\ UNCHANGED rag_resp
  /\ UNCHANGED <<chat_request, qdrant_config_vec, cfg_idx, source_set,
                 retrieve_object_vec, built, searched>>

EmbedOutcomes == {"error", "unparsable", "nodata", "ok"}

\* embeddings_handler returns and its response is parsed; with an embedding
\* in hand retrieve_context sends the search to the vector DB.
RagEmbedded(outcome) ==
  /\ rag_pc = "embed"
  /\ CASE outcome = "error" ->
            /\ RagFail("Operation", "Failed to forward the request to the downstream server")
            /\ UNCHANGED calls
       [] outcome = "unparsable" ->
            /\ RagFail("Operation", "Failed to parse embeddings response")
            /\ UNCHANGED calls
       [] outcome = "nodata" ->
            /\ RagFail("Operation", "No embeddings returned")
            /\ UNCHANGED calls
       [] OTHER ->
            /\ calls' = Append(calls,
                 Call("search", <<qdrant_config_vec[cfg_idx].collection_name>>))
            /\ rag_pc' = "search"
            /\ UNCHANGED rag_resp
  /\ UNCHANGED <<chat_request, qdrant_config_vec, cfg_idx, source_set,
                 retrieve_object_vec, built, searched>>

\* The `source` payloads the collections hold.
Sources == {"doc-1", "doc-2"}

\* The "source" value of a point's payload: a JSON string, or a JSON value
\* that is not a string.
SourceValues ==
  {[str |-> TRUE, v |-> s] : s \in Sources} \cup {[str |-> FALSE, v |-> "7"]}

RECURSIVE SeqsUpTo(_, _)
SeqsUpTo(S, n) ==
  IF n = 0 THEN {<<>>}
  ELSE SeqsUpTo(S, n - 1) \cup
       {Append(q, x) : q \in {r \in SeqsUpTo(S, n - 1) : Len(r) = n - 1}, x \in S}

\* What a scored point carries: a payload with a "source" entry, a payload
\* without one, or no payload.
Payloads == {"source", "other", "none"}

\* The points a search may return.
ScoredPoints ==
  {[str |-> sv.str, v |-> sv.v, payload |-> "source"] : sv \in SourceValues}
    \cup {[str |-> FALSE, v |-> "", payload |-> p] : p \in Payloads \ {"source"}}

\* The scored points one search may return, best first.
PointLists == SeqsUpTo(ScoredPoints, MaxPoints)

\* point.payload.as_ref().unwrap().get("source").unwrap() returns a value.
HasSource(point) == point.payload = "source"

\* Value::to_string: the JSON text of the value, a string in its quotes.
JsonText(value) == IF value.str THEN <<"\"", value.v, "\"">> ELSE <<value.v>>

\* retrieve_context: the filter over scored_points with the `seen` set keeps
\* the first point of every JSON text of "source".
RECURSIVE UniqueScoredPoints(_, _)
UniqueScoredPoints(points, seen) ==
  IF points = <<>> THEN <<>>
  ELSE IF JsonText(Head(points)) \in seen THEN UniqueScoredPoints(Tail(points), seen)
  ELSE <<Head(points)>>
         \o UniqueScoredPoints(Tail(points), seen \cup {JsonText(Head(points))})

\* retrieve_context: a RagScoredPoint is made of every unique point whose
\* "source" is a string.
RECURSIVE RagScoredPoints(_)
RagScoredPoints(points) ==
  IF points = <<>> THEN <<>>
  ELSE (IF Head(points).str THEN <<Head(points).v>> ELSE <<>>)
         \o RagScoredPoints(Tail(points))

\* Variant: no point is checked against the set.
RemoveDuplicatedNone(points, set) == [points |-> points, set |-> set]

\* retrieve_context_with_multiple_qdrant_configs: the points of one
\* collection against `set`; a point whose source is in the set is removed,
\* the source of another is inserted.
RECURSIVE RemoveDuplicated(_, _)
RemoveDuplicated(points, set) ==
  IF points = <<>> THEN [points |-> <<>>, set |-> set]
  ELSE LET p == Head(points)
           rest == RemoveDuplicated(Tail(points),
                                    IF p \in set THEN set ELSE set \cup {p})
       IN [points |-> IF p \in set THEN rest.points ELSE <<p>> \o rest.points,
           set |-> rest.set]

\* The search returns: on an error the request fails; the filter that
\* removes duplicates unwraps the payload and the "source" of every point
\* and panics on a point without; otherwise the unique points are checked
\* against the set, what is left is pushed if it is not empty, and the loop
\* goes to the next config.
RagSearched(ok, scored_points) ==
  /\ rag_pc = "search"
  /\ IF ~ok
     THEN /\ RagFail("Operation", "No point retrieved.")
          /\ UNCHANGED <<cfg_idx, source_set, retrieve_object_vec, searched>>
     ELSE IF \E i \in 1..Len(scored_points) : ~HasSource(scored_points[i])
     THEN /\ rag_resp' = Panicked
          /\ rag_pc' = "done"
          /\ UNCHANGED <<cfg_idx, source_set, retrieve_object_vec, searched>>
     ELSE LET r == RemoveDuplicated(RagScoredPoints(UniqueScoredPoints(scored_points, {})),
                                    source_set)
          IN /\ source_set' = r.set
             /\ searched' = Append(searched, scored_points)
             /\ retrieve_object_vec' =
                  IF r.points # <<>> THEN Append(retrieve_object_vec, r.points)
                  ELSE retrieve_object_vec
             /\ cfg_idx' = cfg_idx + 1
             /\ rag_pc' = "retrieve"
             /\ UNCHANGED rag_resp
  /\ UNCHANGED <<chat_request, qdrant_config_vec, calls, built>>

\* The context string rag::chat builds: every source followed by "\n\n".
RECURSIVE ContextOfPoints(_)
ContextOfPoints(points) ==
  IF points = <<>> THEN <<>>
  ELSE <<Head(points), "\n\n">> \o ContextOfPoints(Tail(points))

RECURSIVE ContextOf(_)
ContextOf(objects) ==
  IF objects = <<>> THEN <<>>
  ELSE ContextOfPoints(Head(objects)) \o ContextOf(Tail(objects))

Whitespace == {" ", "\n", "\n\n"}

RECURSIVE TrimStart(_)
TrimStart(text) ==
  IF text # <<>> /\ Head(text) \in Whitespace THEN TrimStart(Tail(text)) ELSE text

RECURSIVE TrimEnd(_)
TrimEnd(text) ==
  IF text # <<>> /\ text[Len(text)] \in Whitespace
  THEN TrimEnd(SubSeq(text, 1, Len(text) - 1))
  ELSE text

Trim(text) == TrimEnd(TrimStart(text))

Policies == {"SystemMessage", "LastUserMessage"}

\* config.rag.prompt
RagPrompts == {None, Some(<<"Use the context.">>)}

\* Variant: the policy is used as configured.
EffectivePolicyKept(policy, has_system_prompt) == policy

\* build's policy check: SystemMessage is switched to LastUserMessage when
\* the chat model has no system prompt.
EffectivePolicy(policy, has_system_prompt) ==
  IF policy = "SystemMessage" /\ ~has_system_prompt THEN "LastUserMessage"
  ELSE policy

Question == "Answer the question based on the pieces of context above. The question is:"

\* Variant: the new system message takes the place of the first message.
InsertSystemOver(messages, system_message) == [messages EXCEPT ![1] = system_message]

\* messages.insert(0, system_message)
InsertSystem(messages, system_message) == <<system_message>> \o messages

\* RagPromptBuilder::build: the error, or the rewritten messages.
Build(messages, context, has_system_prompt, policy, rag_prompt) ==
  IF messages = <<>> THEN [err |-> "NoMessages", messages |-> messages]
  ELSE IF context = <<>> THEN [err |-> "Operation", messages |-> messages]
  ELSE
    LET ctx == TrimEnd(context[1])
        prompt == IF rag_prompt = None THEN <<>> ELSE Unwrap(rag_prompt) \o <<"\n">>
    IN IF EffectivePolicy(policy, has_system_prompt) = "SystemMessage"
       THEN IF messages[1].role = "system"
            THEN [err |-> "",
                  messages |->
                    [messages EXCEPT ![1] =
                       System(Trim(messages[1].content) \o <<"\n">> \o prompt \o ctx)]]
            ELSE [err |-> "", messages |-> InsertSystem(messages, System(prompt \o ctx))]
       ELSE IF messages[Len(messages)].role # "user"
            THEN [err |-> "BadMessages", messages |-> messages]
            ELSE IF ~messages[Len(messages)].is_text
            THEN [err |-> "", messages |-> messages]
            ELSE [err |-> "",
                  messages |->
                    [messages EXCEPT ![Len(messages)] =
                       User(ctx \o <<"\n", Question, "\n">>
                              \o Trim(messages[Len(messages)].content))]]

\* Variant: the context is merged whether or not it is empty.
MergingAlways(context) == TRUE

\* `if !context.is_empty()`: the context string has something to merge.
Merging(context) == context # <<>>

\* rag::chat after the retrieval: the context is put together and, if it is
\* not empty, merged into the messages with the prompt template of a chat
\* server and the configured policy; then handler::chat is called.
RagMerge(has_chat_server, has_system_prompt, policy, rag_prompt) ==
  /\ rag_pc = "merge"
  /\ LET context == ContextOf(retrieve_object_vec)
         b == Build(chat_request.messages, <<context>>, has_system_prompt, policy,
                    rag_prompt)
     IN IF ~Merging(context)
        THEN /\ rag_pc' = "chat"
             /\ UNCHANGED <<chat_request, rag_resp, built>>
        ELSE IF chat_request.messages = <<>>
        THEN /\ RagFail("BadRequest", "Found empty chat messages")
             /\ UNCHANGED <<chat_request, built>>
        ELSE IF ~has_chat_server
        THEN /\ RagFail("Operation", "No chat server available")
             /\ UNCHANGED <<chat_request, built>>
        ELSE /\ built' = [called |-> TRUE, messages |-> chat_request.messages,
                          context |-> <<context>>,
                          has_system_prompt |-> has_system_prompt,
                          policy |-> policy, rag_prompt |-> rag_prompt]
             /\ chat_request' = [chat_request EXCEPT !.messages = b.messages]
             /\ IF b.err # ""
                THEN RagFail("Operation", b.err)
                ELSE /\ rag_pc' = "chat"
                     /\ UNCHANGED rag_resp
  /\ UNCHANGED <<qdrant_config_vec, cfg_idx, source_set, retrieve_object_vec, calls,
                 searched>>

ChatOutcomes == {"nobackend", "senderror", "relayed"}

\* handler::chat with the request as it is now: without a chat backend it
\* fails before anything is sent; otherwise the request is forwarded and the
\* backend's answer relayed.
RagChat(outcome, status) ==
  /\ rag_pc = "chat"
  /\ CASE outcome = "nobackend" ->
            /\ RagFail(NoPoolError, NoServerMsg("chat"))
            /\ UNCHANGED calls
       [] outcome = "senderror" ->
            /\ RagFail("Operation", "Failed to forward the request to the downstream server")
            /\ calls' = Append(calls, Call("chat", chat_request.messages))
       [] OTHER ->
            /\ rag_resp' = [status |-> status, msg |-> "relayed", headers |-> JsonHeaders]
            /\ rag_pc' = "done"
            /\ calls' = Append(calls, Call("chat", chat_request.messages))
  /\ UNCHANGED <<chat_request, qdrant_config_vec, cfg_idx, source_set,
                 retrieve_object_vec, built, searched>>

\* A chat request arrives with RAG enabled: chat_handler calls rag::chat.
InitRag ==
  /\ GatewayInit
  /\ UrlsIdle
  /\ chat_request \in ChatRequests
  /\ rag_pc = "start"
  /\ qdrant_config_vec = <<>>
  /\ cfg_idx = 0
  /\ source_set = {}
  /\ retrieve_object_vec = <<>>
  /\ calls = <<>>
  /\ rag_resp = NoResp
  /\ built = NoBuild
  /\ searched = <<>>

\* ------------------------------------------------------------- urls
\* A url is the sequence of its pieces, "/" being a piece of its own, so
\* that composing and trimming are done as on the text.
Hosts == {"http://b1:9", "http://b2:9", "http://b3:9", "http://b4:9"}

\* The base urls a register request may carry: with and without a trailing
\* slash.
ServerUrls == {<<h>> : h \in Hosts} \cup {<<h, "/">> : h \in Hosts}

\* The endpoints verify_server probes.
ProbePaths == {"v1/info", "v1/models"}

\* format!("{}/v1/info", server_url), format!("{}/v1/models", server_url)
ProbeUrl(url, path) == url \o <<"/", path>>

\* The base url next() returns: the url of the chosen descriptor.
NextUrl(url) == url

\* The sub-path a dispatcher appends to the base url.
ServicePath(h) ==
  CASE h = "chat" -> "v1/chat/completions"
    [] h = "embeddings" -> "v1/embeddings"
    [] h = "transcribe" -> "v1/audio/transcriptions"
    [] h = "translate" -> "v1/audio/translations"
    [] OTHER -> "v1/audio/speech"

\* format!("{}v1/chat/completions", chat_server_base_url), and alike in the
\* other dispatchers.
ServiceUrl(h, base_url) == base_url \o <<ServicePath(h)>>

\* verify_server sends a GET to one of its endpoints.
Probe(path) ==
  /\ server_url # <<>>
  /\ probe_url' = ProbeUrl(server_url, path)
  /\ UNCHANGED <<server_url, service_url>>

\* Dispatcher h forwards a request to the backend.
Forward(h) ==
  /\ server_url # <<>>
  /\ service_url' = ServiceUrl(h, NextUrl(server_url))
  /\ UNCHANGED <<server_url, probe_url>>

\* A backend's base url is given in a register request.
InitUrls ==
  /\ GatewayInit
  /\ RagIdle
  /\ server_url \in ServerUrls
  /\ probe_url = <<>>
  /\ service_url = <<>>

\* ------------------------------------------------------------- behaviours
TaskNext(t) ==
  \/ \E path \in Paths : Request(t, path)
  \/ \E o \in InfoOutcomes, caps \in CapSets : InfoResponse(t, o, caps) /\ UNCHANGED <<rag, urls>>
  \/ UpdateServerInfo(t) /\ UNCHANGED <<rag, urls>>
  \/ \E o \in ModelsOutcomes : ModelsResponse(t, o) /\ UNCHANGED <<rag, urls>>
  \/ RegisterKind(t) /\ UNCHANGED <<rag, urls>>
  \/ UnregisterKind(t) /\ UNCHANGED <<rag, urls>>
  \/ \E k \in Kinds : ListKind(t, k) /\ UNCHANGED <<rag, urls>>
  \/ ListRead(t) /\ UNCHANGED <<rag, urls>>
  \/ \E h \in AudioKinds : StartAudio(t, h) /\ UNCHANGED <<rag, urls>>
  \/ \E ok \in BOOLEAN : InBodyDone(t, ok) /\ UNCHANGED <<rag, urls>>
  \/ \E ok \in BOOLEAN : SendDone(t, ok) /\ UNCHANGED <<rag, urls>>
  \/ \E ok \in BOOLEAN, st \in Statuses, sm \in StreamsOf(op[t]), dh \in HeadersOf(op[t]) :
       BodyDone(t, ok, st, sm, dh) /\ UNCHANGED <<rag, urls>>
  \/ Finish(t) /\ UNCHANGED <<rag, urls>>

\* Requests are served concurrently: any task may take its next step.
Next == \E t \in Tasks : TaskNext(t)

Spec == Init /\ [][Next]_vars

\* A step of the call task t is in, arrivals and returns left out: a lock is
\* granted, a downstream call comes back, a loop goes on.
Progress(t) ==
  /\ UNCHANGED <<rag, urls>>
  /\ \/ \E o \in InfoOutcomes, caps \in CapSets : InfoResponse(t, o, caps)
     \/ UpdateServerInfo(t)
     \/ \E o \in ModelsOutcomes : ModelsResponse(t, o)
     \/ RegisterKind(t)
     \/ UnregisterKind(t)
     \/ \E k \in Kinds : ListKind(t, k)
     \/ ListRead(t)
     \/ \E ok \in BOOLEAN : InBodyDone(t, ok)
     \/ \E ok \in BOOLEAN : SendDone(t, ok)
     \/ \E ok \in BOOLEAN, st \in Statuses, sm \in StreamsOf(op[t]), dh \in HeadersOf(op[t]) :
          BodyDone(t, ok, st, sm, dh)

\* The requests that take a lock: register and unregister of a backend of
\* two kinds, list, and the two dispatchers that differ in how long they
\* keep the registry lock.
LockKindSets == {{"chat", "embeddings"}}

LockIds == EverPooled \cup {FormatId(ks, 0) : ks \in LockKindSets}

Arrival(t) ==
  \/ StartChat(t) /\ UNCHANGED <<rag, urls>>
  \/ \E ct \in BOOLEAN : StartEmbeddings(t, ct) /\ UNCHANGED <<rag, urls>>
  \/ \E ks \in LockKindSets : StartRegister(t, ks, UrlOf(nonce + 1)) /\ UNCHANGED <<rag, urls>>
  \/ \E id \in LockIds : StartUnregister(t, id) /\ UNCHANGED <<rag, urls>>
  \/ StartList(t) /\ UNCHANGED <<rag, urls>>

NextLive ==
  \/ \E t \in Tasks : Arrival(t)
  \/ \E t \in Tasks : Progress(t)
  \/ \E t \in Tasks : Finish(t) /\ UNCHANGED <<rag, urls>>

\* Concurrent requests whose downstream calls all come back, on a runtime
\* that polls every task that can go on and grants a lock in the order it
\* was asked for: a call that can go on again and again does go on.
SpecLive == Init /\ [][NextLive]_vars /\ \A t \in Tasks : SF_vars(Progress(t))

\* Requests arrive one after the other: a single task serves them all.
NextSeq == TaskNext("t1")

SpecSeq == Init /\ [][NextSeq]_vars

\* One RAG chat request goes through rag::chat, the registry left alone.
NextRag ==
  \/ \E v \in VectorDbs : RagConfigs(v) /\ UNCHANGED <<gateway, urls>>
  \/ \E w \in ContextWindows : RagRetrieve(w) /\ UNCHANGED <<gateway, urls>>
  \/ \E o \in EmbedOutcomes : RagEmbedded(o) /\ UNCHANGED <<gateway, urls>>
  \/ \E ok \in BOOLEAN, ps \in PointLists : RagSearched(ok, ps) /\ UNCHANGED <<gateway, urls>>
  \/ \E cs, hsp \in BOOLEAN, pol \in Policies, rp \in RagPrompts :
       RagMerge(cs, hsp, pol, rp) /\ UNCHANGED <<gateway, urls>>
  \/ \E o \in ChatOutcomes, st \in Statuses : RagChat(o, st) /\ UNCHANGED <<gateway, urls>>

SpecRag == InitRag /\ [][NextRag]_vars

\* The urls composed for one backend, the registry and the RAG pipeline left
\* alone.
NextUrls ==
  \/ \E path \in ProbePaths : Probe(path) /\ UNCHANGED <<gateway, rag>>
  \/ \E h \in DispatchKinds : Forward(h) /\ UNCHANGED <<gateway, rag>>

SpecUrls == InitUrls /\ [][NextUrls]_vars

\* ------------------------------------------------------------- properties
PoolsHolding(id) == {k \in Kinds : id \in Ids(Pool(k))}

PoolsHoldingNext(id) == {k \in Kinds : id \in Ids(server_group'[k].servers)}

\* What a list() of the current registry reports.
Listed == UNION {ListEntry(k, server_group[k]) : k \in PresentKinds}

ListedUnder(id) == {e[1] : e \in {x \in Listed : id \in Ids(x[2])}}

Registering(t) == op[t] = "register" /\ pc[t] \in {"info", "info_lock", "models", "register"}

\* C1: while a backend is being registered and another task is free to run
\* list() or select(), the backend is in all the pools of its declared kinds
\* or in none of them.
C1_RegisterAtomic ==
  \A t \in Tasks :
    (Registering(t) /\ \E u \in Tasks \ {t} : pc[u] = "idle")
      => PoolsHolding(arg[t].id) \in {{}, arg[t].kind}

\* C2: a register call that ended in an error (every error of the handler is
\* a verification failure) has left nothing behind: its freshly assigned id
\* is in no pool, has no server_info entry and no recorded model list.
C2_VerifyFailureNoEffect ==
  \A t \in Tasks :
    (op[t] = "register" /\ pc[t] = "done" /\ resp[t].status # 200)
      => /\ PoolsHolding(arg[t].id) = {}
         /\ arg[t].id \notin {e.id : e \in server_info}
         /\ arg[t].id \notin models

\* C3: when the parsed /v1/info lacks the model descriptor of a declared
\* kind, the register call has returned a 500 Operation error, no pool holds
\* the candidate and a list() does not report it.
C3_MissingModelRejected ==
  \A t \in Tasks :
    (op[t] = "register" /\ api_server[t].parsed
       /\ arg[t].kind \ api_server[t].caps # {})
      => /\ pc[t] = "done"
         /\ resp[t].status = 500
         /\ PoolsHolding(arg[t].id) = {}
         /\ ListedUnder(arg[t].id) = {}

C3_Witness ==
  \E t \in Tasks :
    /\ op[t] = "register" /\ pc[t] = "done" /\ api_server[t].parsed
    /\ "tts" \in arg[t].kind \ api_server[t].caps
    /\ PresentKinds # {}

NoBackend(k) == ~server_group[k].present \/ Pool(k) = <<>>

\* C4: a request of a dispatcher that arrives when its kind has no pool or an
\* empty pool is answered 404 with "No <kind> server available", and nothing
\* is sent downstream.
C4_NoBackend404 ==
  [][\A t \in Tasks :
       (pc[t] = "idle" /\ op'[t] \in DispatchKinds /\ NoBackend(op'[t]))
         => /\ pc'[t] = "done"
            /\ resp'[t].status = 404
            /\ resp'[t].msg = NoServerMsg(op'[t])
            /\ target'[t] = ""]_vars

AwaitingIO(t) == op[t] \in DispatchKinds /\ pc[t] \in {"inbody", "send", "body"}

\* C5: a dispatcher that is waiting for network I/O holds no registry lock.
C5_NoRegistryLockAcrossIO ==
  \A t \in Tasks : AwaitingIO(t) => t \notin readers

\* C6: a selection on a non-empty pool returns the url of a descriptor of
\* that pool whose load is minimal, the first one in pool order among equals,
\* adds one to that descriptor's load and changes no other load or pool.
C6_SelectLeastLoaded ==
  [][\A t \in Tasks :
       (pc[t] = "idle" /\ op'[t] \in DispatchKinds /\ ~NoBackend(op'[t]))
         => LET k == op'[t]
                pool == Pool(k)
            IN \E i \in 1..Len(pool) :
                 /\ \A j \in 1..Len(pool) : pool[i].connections <= pool[j].connections
                 /\ \A j \in 1..(i - 1) : pool[j].connections > pool[i].connections
                 /\ target'[t] = pool[i].url
                 /\ \A kk \in Kinds :
                      /\ Len(server_group'[kk].servers) = Len(Pool(kk))
                      /\ server_group'[kk].present = server_group[kk].present
                      /\ \A j \in 1..Len(Pool(kk)) :
                           server_group'[kk].servers[j] =
                             IF Pool(kk)[j].id = pool[i].id
                             THEN [Pool(kk)[j] EXCEPT !.connections = @ + 1]
                             ELSE Pool(kk)[j]]_vars

C6_Witness ==
  \E t \in Tasks :
    /\ op[t] = "chat" /\ pc[t] = "send"
    /\ Len(Pool("chat")) = 2
    /\ Pool("chat")[1].connections = 1 /\ Pool("chat")[2].connections = 1
    /\ hist["chat"].id = Pool("chat")[2].id

\* C7: the load of a descriptor that stays in its pool never decreases,
\* whatever step is taken: it is not given back when a forwarded request
\* completes or fails.
C7_LoadMonotonic ==
  [][\A k \in Kinds :
       \A i \in 1..Len(Pool(k)), j \in 1..Len(server_group'[k].servers) :
         Pool(k)[i].id = server_group'[k].servers[j].id
           => server_group'[k].servers[j].connections >= Pool(k)[i].connections]_vars

C7_Witness ==
  \E t \in Tasks :
    /\ op[t] = "chat" /\ pc[t] = "done" /\ target[t] # ""
    /\ resp[t].status = 500
    /\ \E i \in 1..Len(Pool("chat")) : Pool("chat")[i].connections = 2

Spread(pool) ==
  LET loads == {pool[i].connections : i \in 1..Len(pool)}
  IN (CHOOSE m \in loads : \A x \in loads : x <= m) - MinConnections(pool)

\* A selection was made on pool k in this step.
SelectedOn(k) ==
  /\ \E t \in Tasks :
       pc[t] = "idle" /\ op'[t] \in DispatchKinds /\ DispatchKind(op'[t]) = k
  /\ IdSeq(Pool(k)) = IdSeq(server_group'[k].servers)
  /\ SumConnections(server_group'[k].servers) = SumConnections(Pool(k)) + 1

C9_RegisteredEverywhere ==
  [][\A t \in Tasks :
       (op[t] = "register" /\ pc[t] # "done" /\ pc'[t] = "done"
          /\ resp'[t].status = 200)
         => PoolsHoldingNext(arg[t].id) = arg[t].kind]_vars

\* C10: when an unregister call returns success, no pool holds a descriptor
\* with that id.
C10_UnregisteredEverywhere ==
  [][\A t \in Tasks :
       (op[t] = "unregister" /\ pc[t] # "done" /\ pc'[t] = "done"
          /\ resp'[t].status = 200)
         => PoolsHoldingNext(arg[t].id) = {}]_vars

C10_Witness ==
  \E t \in Tasks :
    /\ op[t] = "unregister" /\ pc[t] = "done" /\ resp[t].status = 200
    /\ Len(arg[t].id.kinds) = 2
    /\ arg[t].id \in models
    /\ \A k \in Range(arg[t].id.kinds) : server_group[k].present

\* register_downstream_server run to its end on registry sg: the blocks of
\* the kinds ks, one after the other.
RECURSIVE RegisterAll(_, _, _)
RegisterAll(sg, ks, server) ==
  IF ks = <<>> THEN sg
  ELSE RegisterAll(RegisterInto(sg, Head(ks), server), Tail(ks), server)

\* unregister_downstream_server's loop run to its end on registry sg.
RECURSIVE UnregisterAll(_, _, _)
UnregisterAll(sg, ks, id) ==
  IF ks = <<>> THEN sg
  ELSE UnregisterAll(UnregisterFrom(sg, Head(ks), id), Tail(ks), id)

\* What list_downstream_servers returns on registry sg.
ListOf(sg) == UNION {ListEntry(k, sg[k]) : k \in {x \in Kinds : sg[x].present}}

\* The descriptor the next register request of kinds ks brings.
Candidate(ks) ==
  [id |-> FormatId(ks, nonce + 1), url |-> UrlOf(nonce + 1), kind |-> ks,
   connections |-> 0]

\* C11: from every registry state and for every backend of one kind or more,
\* registering the backend and then unregistering the id it was given leaves a
\* registry whose list() equals the list() before the register.
C11_RegisterUnregisterRoundTrip ==
  \A ks \in KindSets \ {{}} :
    LET b == Candidate(ks)
        registered == RegisterAll(server_group, SeqOfKinds(b.kind, 1), b)
    IN ListOf(UnregisterAll(registered, KindsOfId(b.id), b.id)) = ListOf(server_group)

\* A multi-kind backend was registered and unregistered next to one that stays.
C11_Witness ==
  \E t \in Tasks :
    /\ op[t] = "unregister" /\ pc[t] = "done" /\ resp[t].status = 200
    /\ Len(arg[t].id.kinds) = 2 /\ arg[t].id \in models
    /\ PoolsHolding(arg[t].id) = {}
    /\ \E e \in Listed : e[1] = "chat" /\ Len(e[2]) = 1 /\ e[2][1].connections > 0

\* C12: every descriptor stored in the pool of kind K has K among its kinds.
C12_PoolKindInvariant ==
  \A k \in Kinds :
    \A i \in 1..Len(Pool(k)) : k \in Pool(k)[i].kind

C12_Witness ==
  /\ \E i \in 1..Len(Pool("embeddings")) :
       Pool("embeddings")[i].kind = {"chat", "embeddings"}
  /\ \E i \in 1..Len(Pool("tts")) : Pool("tts")[i].kind = {"tts"}

UnregisterReturns(t) ==
  op[t] = "unregister" /\ pc[t] = "unregister" /\ pc'[t] = "done"

\* C13: an unregister call succeeds and leaves the id in no pool when some
\* pool held the id as the call started, and fails with NotFound (404) when
\* no pool held it, whether or not the pools of its kinds exist.
C13_NotFoundIffAbsent ==
  [][\A t \in Tasks :
       UnregisterReturns(t)
         => IF held[t] # {}
            THEN resp'[t].status = 200 /\ PoolsHoldingNext(arg[t].id) = {}
            ELSE resp'[t].status = StatusOf("NotFoundServer")]_vars

\* C14: a register request that declares no kind is answered 400 BadRequest
\* at once: no probe is sent and no pool changes.
C14_EmptyKindsRejected ==
  [][\A t \in Tasks :
       (pc[t] = "idle" /\ op'[t] = "register" /\ arg'[t].kind = {})
         => /\ pc'[t] = "done"
            /\ resp'[t].status = StatusOf("BadRequest")
            /\ server_group' = server_group]_vars

\* C15: the map a list() call returns has no entry with an empty descriptor
\* list, whatever register and unregister calls run alongside it.
C15_ListOmitsEmpty ==
  \A t \in Tasks :
    (op[t] = "list" /\ pc[t] = "done") => \A e \in listing[t] : e[2] # <<>>

CorsHeaders ==
  {<<"access-control-allow-origin", "*">>,
   <<"access-control-allow-methods", "*">>,
   <<"access-control-allow-headers", "*">>}

\* A response the gateway made from one of its own errors (not a relayed one).
GatewayError(r) == r.status >= 400 /\ r.msg # "relayed"

\* C16: every error response the gateway produces, from an admin endpoint or
\* from a dispatcher, carries the three CORS wildcard headers.
C16_ErrorsCarryCors ==
  \A t \in Tasks :
    (pc[t] = "done" /\ GatewayError(resp[t])) => CorsHeaders \subseteq resp[t].headers

\* The four per-request vector-DB fields are all absent, or all present with
\* the three arrays of one length.
VdbFieldsValid(req) ==
  \/ /\ req.vdb_server_url = None /\ req.vdb_collection_name = None
     /\ req.limit = None /\ req.score_threshold = None
  \/ /\ req.vdb_server_url # None /\ req.vdb_collection_name # None
     /\ req.limit # None /\ req.score_threshold # None
     /\ Len(Unwrap(req.vdb_collection_name)) = Len(Unwrap(req.limit))
     /\ Len(Unwrap(req.vdb_collection_name)) = Len(Unwrap(req.score_threshold))

\* C17: a RAG chat request whose vector-DB fields are a partial set or have
\* arrays of different lengths is rejected with 400 BadRequest before any
\* embeddings, vector-search or chat call.
C17_VdbFieldsValidated ==
  (rag_pc # "start" /\ ~VdbFieldsValid(chat_request))
    => /\ rag_pc = "done"
       /\ rag_resp.status = StatusOf("BadRequest")
       /\ calls = <<>>

Forwarded(to) == \E i \in 1..Len(calls) : calls[i].to = to

\* C18: with RAG enabled, a chat request with an empty messages array and
\* well-formed vector-DB fields is answered 400 BadRequest whatever the
\* vector-DB configuration (a default one with no collection included), and no
\* chat request is forwarded to a chat backend.
C18_EmptyMessagesRejected ==
  (chat_request.messages = <<>> /\ VdbFieldsValid(chat_request))
     => /\ ~Forwarded("chat")
        /\ rag_pc = "done" => rag_resp.status = StatusOf("BadRequest")

\* The build call was made under SystemMessage for a chat model without a
\* system prompt.
BuiltDemoted ==
  built.called /\ built.policy = "SystemMessage" /\ ~built.has_system_prompt

\* What the same call gives under LastUserMessage.
BuiltAsLastUser ==
  Build(built.messages, built.context, built.has_system_prompt, "LastUserMessage",
        built.rag_prompt)

\* C19: a prompt rewrite under SystemMessage with has_system_prompt false has
\* exactly the outcome of the rewrite under LastUserMessage: the same
\* resulting messages, or the same error.
C19_DemotionEquivalence ==
  BuiltDemoted =>
    /\ chat_request.messages = BuiltAsLastUser.messages
    /\ BuiltAsLastUser.err # "" <=> (rag_pc = "done" /\ rag_resp.msg = BuiltAsLastUser.err)

\* The demoted rewrite went into the last user message of a request that
\* starts with a system message.
C19_Witness ==
  /\ BuiltDemoted
  /\ built.messages[1].role = "system"
  /\ BuiltAsLastUser.err = ""
  /\ chat_request.messages[1] = built.messages[1]
  /\ chat_request.messages # built.messages

RECURSIVE Flat(_)
Flat(seqs) == IF seqs = <<>> THEN <<>> ELSE Head(seqs) \o Flat(Tail(seqs))

IsString(value) == value.str

\* The source strings of all points retrieved so far, in retrieval order:
\* collection after collection, best point first.
RetrievedSources ==
  LET q == SelectSeq(Flat(searched), IsString) IN [i \in 1..Len(q) |-> q[i].v]

\* The elements of q that did not occur earlier in q, in the order of q.
RECURSIVE FirstOccurrences(_, _)
FirstOccurrences(q, i) ==
  IF i > Len(q) THEN <<>>
  ELSE (IF \A j \in 1..(i - 1) : q[j] # q[i] THEN <<q[i]>> ELSE <<>>)
         \o FirstOccurrences(q, i + 1)

Occurrences(q, x) == Cardinality({i \in 1..Len(q) : q[i] = x})

\* C20: in the context aggregated over the collections of one request every
\* distinct source string that was retrieved appears exactly once; the points
\* kept are those whose source occurred neither earlier in the result of the
\* same collection nor in a collection processed before, in retrieval order.
C20_ContextSourcesUnique ==
  /\ Flat(retrieve_object_vec) = FirstOccurrences(RetrievedSources, 1)
  /\ \A s \in Sources :
       Occurrences(ContextOf(retrieve_object_vec), s) =
         IF Occurrences(RetrievedSources, s) > 0 THEN 1 ELSE 0

\* Two collections were searched: the first returned one source twice, the
\* second returned it again and a new one; both collections contribute.
C20_Witness ==
  /\ rag_pc = "merge"
  /\ Len(searched) = 2
  /\ Len(searched[1]) = 2 /\ searched[1][1] = searched[1][2] /\ searched[1][1].str
  /\ \E i \in 1..Len(searched[2]) : searched[2][i] = searched[1][1]
  /\ Len(retrieve_object_vec) = 2

\* The Content-Type values among the headers hs.
ContentType(hs) == {p[2] : p \in {q \in hs : q[1] = "content-type"}}

\* C21: a relayed chat response is text/event-stream when the request had
\* stream == true and application/json otherwise; relayed embeddings,
\* transcriptions and translations responses are application/json whatever
\* the backend declared; a relayed speech response has the backend's
\* Content-Type.
C21_RelayedContentType ==
  [][\A t \in Tasks, st \in Statuses, sm \in Streams, dh \in DownstreamHeaders :
       BodyDone(t, TRUE, st, sm, dh) =>
         ContentType(resp'[t].headers) =
           CASE op[t] = "chat" /\ sm = Some(TRUE) -> {"text/event-stream"}
             [] op[t] = "chat" /\ sm # Some(TRUE) -> {"application/json"}
             [] op[t] \in {"embeddings", "transcribe", "translate"} -> {"application/json"}
             [] op[t] = "tts" -> ContentType(dh)]_vars

\* A chat response was relayed as an event stream.
C21_Witness ==
  \E t \in Tasks :
    /\ op[t] = "chat" /\ pc[t] = "done" /\ resp[t].msg = "relayed"
    /\ ContentType(resp[t].headers) = {"text/event-stream"}

\* The kind whose dispatcher a POST path is stated to reach, "" for a path
\* that is stated to reach none.
StatedKind(path) ==
  CASE path = "/v1/chat/completions" -> "chat"
    [] path = "/v1/embeddings" -> "embeddings"
    [] path = "/v1/audio/transcriptions" -> "transcribe"
    [] path = "/v1/audio/translations" -> "translate"
    [] path = "/v1/audio/speech" -> "tts"
    [] path \in {"/v1/images/generations", "/v1/images/edits"} -> "image"
    [] OTHER -> ""

\* C22: a request on one of the seven inference paths enters the dispatcher
\* of the kind stated for the path, and a request on any other path enters no
\* kind dispatcher.
C22_PathsRouted ==
  [][\A t \in Tasks, path \in Paths :
       Request(t, path) =>
         IF StatedKind(path) # "" THEN op'[t] = StatedKind(path)
         ELSE op'[t] \notin Kinds]_vars

\* The id of the unregister request of t has a kind token that is no kind.
MalformedId(t) ==
  op[t] = "unregister" /\ \E i \in 1..Len(arg[t].id.kinds) : arg[t].id.kinds[i] \notin Kinds

\* C23: an unregister whose id has a kind token that is none of the six
\* kinds returns an InvalidKind error response (400) and changes no pool.
C23_InvalidKindRejected ==
  [][\A t \in Tasks :
       MalformedId(t) =>
         /\ server_group' = server_group
         /\ (pc[t] = "unregister" /\ pc'[t] = "done") => resp'[t].status = 400]_vars

\* The verification of the backend id was completed: server_info holds its info
\* response, with the model descriptor of every kind in kind, and its model
\* list was recorded.
Verified(id, kind) ==
  /\ id \in models
  /\ \E e \in server_info : e.id = id /\ kind \subseteq e.caps

\* C24: every backend in a pool went through a successful verification before
\* it was put there: its info response had the model descriptor of every kind
\* it declared and its model list had been fetched.
C24_PooledAreVerified ==
  \A k \in Kinds :
    \A i \in 1..Len(Pool(k)) : Verified(Pool(k)[i].id, Pool(k)[i].kind)

\* A backend of two kinds is pooled while the registration of another one is
\* still fetching its model list.
C24_Witness ==
  /\ \E i \in 1..Len(Pool("chat")) : Pool("chat")[i].kind = {"chat", "embeddings"}
  /\ \E t \in Tasks :
       /\ op[t] = "register" /\ pc[t] = "models"
       /\ PoolsHolding(arg[t].id) = {}

\* t is between the first and the last pool mutation of a register call.
MidRegister(t) ==
  /\ op[t] = "register" /\ pc[t] = "register"
  /\ PoolsHolding(arg[t].id) \notin {{}, arg[t].kind}

\* t is between the first and the last pool mutation of an unregister call.
MidUnregister(t) ==
  /\ op[t] = "unregister" /\ pc[t] = "unregister"
  /\ PoolsHolding(arg[t].id) \notin {{}, held[t]}

\* u takes a step of list(), or makes a selection.
ReaderStep(u) ==
  \/ /\ op'[u] = "list"
     /\ pc[u] \in {"idle", "list", "list_read"}
     /\ \/ pc'[u] # pc[u] \/ visited'[u] # visited[u]
        \/ todo'[u] # todo[u] \/ listing'[u] # listing[u]
  \/ pc[u] = "idle" /\ op'[u] \in DispatchKinds

\* C25: no step of a list() and no selection is taken while a register or an
\* unregister call is between its first and its last pool mutation.
C25_WritersExcludeReaders ==
  [][\A t \in Tasks :
       (MidRegister(t) \/ MidUnregister(t))
         => \A u \in Tasks \ {t} : ~ReaderStep(u)]_vars

ChatCalls == {i \in 1..Len(calls) : calls[i].to = "chat"}

\* C26: within one RAG chat request the chat request is forwarded only once
\* a search of every vector-DB config has completed, after every embeddings
\* and search call and as the last call; a request that fails in the config
\* resolution, the query derivation, an embeddings call, a search or the
\* prompt rewrite ends with no chat request forwarded.
C26_RagStagesInOrder ==
  /\ [](Forwarded("chat") =>
          /\ Len(searched) = Len(qdrant_config_vec)
          /\ ChatCalls = {Len(calls)})
  /\ [][(rag_pc \in {"start", "retrieve", "embed", "search", "merge"} /\ rag_pc' = "done")
          => \A i \in 1..Len(calls') : calls'[i].to # "chat"]_vars

\* The chat request was forwarded after the searches of two collections.
C26_Witness ==
  /\ Forwarded("chat")
  /\ Len(qdrant_config_vec) = 2 /\ Len(searched) = 2
  /\ Len(calls) = 5

CallsTo(to) == {i \in 1..Len(calls) : calls[i].to = to}

\* C27: a RAG chat request calls the embeddings dispatcher exactly once,
\* however many vector-DB configs there are, and then searches once per
\* config: never a second embeddings call, and by the time the chat request
\* is forwarded one embeddings call and one search per config.
C27_OneEmbeddingsCall ==
  /\ Cardinality(CallsTo("embeddings")) <= 1
  /\ Forwarded("chat") =>
       /\ Cardinality(CallsTo("embeddings")) = 1
       /\ Cardinality(CallsTo("search")) = Len(qdrant_config_vec)

\* The texts a query may draw on, in message order: the text of every user
\* message with text content that does not end with the sentinel, and of the
\* last message when it is a user text ending with it (sentinel stripped).
RECURSIVE EligibleTexts(_, _)
EligibleTexts(messages, i) ==
  IF i > Len(messages) THEN <<>>
  ELSE LET m == messages[i]
           rest == EligibleTexts(messages, i + 1)
       IN IF ~(m.role = "user" /\ m.is_text) THEN rest
          ELSE IF ~EndsWithSentinel(m.content) THEN <<m.content>> \o rest
          ELSE IF i = Len(messages) THEN <<TrimSentinel(m.content)>> \o rest
          ELSE rest

\* The n last elements of seq.
LastN(seq, n) == SubSeq(seq, Len(seq) - n + 1, Len(seq))

\* C28: for every message array and every context window (the request's
\* value before the configured one), the query text sent to the embeddings
\* backend is the join of the most recent eligible user texts, at most
\* context-window many and in message order, and the request is refused for
\* missing user messages only when no message is eligible.
C28_QueryFromRecentUserTexts ==
  [][\A ccw \in ContextWindows :
       (RagRetrieve(ccw) /\ MoreConfigs(cfg_idx, qdrant_config_vec))
         => LET request_window == chat_request.context_window
                cw == IF request_window # None THEN Unwrap(request_window) ELSE ccw
                eligible == EligibleTexts(chat_request.messages, 1)
            IN /\ rag_pc' = "embed" =>
                    \E n \in 1..cw :
                      /\ n <= Len(eligible)
                      /\ calls'[Len(calls')].body = Join(LastN(eligible, n), "\n")
               /\ rag_resp'.msg = "No user messages found." => eligible = <<>>]_vars

\* A user message with text content that ends with the sentinel.
Health(m) == m.role = "user" /\ m.is_text /\ EndsWithSentinel(m.content)

\* The texts of the user text messages that do not end with the sentinel,
\* in message order.
RECURSIVE PlainTexts(_, _)
PlainTexts(messages, i) ==
  IF i > Len(messages) THEN <<>>
  ELSE LET m == messages[i]
       IN IF m.role = "user" /\ m.is_text /\ ~EndsWithSentinel(m.content)
          THEN <<m.content>> \o PlainTexts(messages, i + 1)
          ELSE PlainTexts(messages, i + 1)

\* C29: when the last message of the array is a user text ending with the
\* sentinel, the query is that text with the sentinel stripped and nothing
\* else; otherwise the query is made of texts that do not end with the
\* sentinel only, whatever sentinel-terminated messages stand before.
C29_SentinelOnlyWhenLast ==
  [][(rag_pc = "retrieve" /\ rag_pc' = "embed")
       => LET messages == chat_request.messages
              last == messages[Len(messages)]
              plain == PlainTexts(messages, 1)
              query == calls'[Len(calls')].body
          IN IF Health(last)
             THEN query = TrimSentinel(last.content)
             ELSE \E n \in 1..Len(plain) : query = Join(LastN(plain, n), "\n")]_vars

\* The query of a request whose last message ends with the sentinel, with a
\* window of two and an earlier user message: the stripped text alone.
C29_Witness ==
  /\ rag_pc = "embed"
  /\ chat_request.context_window = Some(2)
  /\ chat_request.messages = <<User(<<"q1">>), User(<<"h", Sentinel>>)>>
  /\ calls[Len(calls)] = Call("embeddings", <<"h">>)

\* The build call was made with LastUserMessage as the policy in effect.
BuiltLastUser ==
  /\ built.called
  /\ EffectivePolicy(built.policy, built.has_system_prompt) = "LastUserMessage"

\* The last message build was given, with the context merged into its text.
Rewritten(m) ==
  User(TrimEnd(built.context[1]) \o <<"\n", Question, "\n">> \o Trim(m.content))

\* C30: a rewrite under LastUserMessage of a request whose last message is
\* a user message with text content replaces that message by the context,
\* the fixed instruction and its text (outer whitespace aside) and leaves
\* the other messages as they were; with any other last message the request
\* ends with the BadMessages error and the message array is as it was.
C30_LastUserMessageRewrite ==
  BuiltLastUser =>
    LET old == built.messages
        last == old[Len(old)]
    IN IF last.role = "user" /\ last.is_text
       THEN /\ rag_resp.msg # "BadMessages"
            /\ chat_request.messages = [old EXCEPT ![Len(old)] = Rewritten(last)]
       ELSE /\ rag_pc = "done" /\ rag_resp.msg = "BadMessages"
            /\ chat_request.messages = old

\* The build call was made with SystemMessage as the policy in effect.
BuiltSystem ==
  built.called /\ built.policy = "SystemMessage" /\ built.has_system_prompt

\* The configured prompt and the context, as build puts them together.
PromptAndContext ==
  (IF built.rag_prompt = None THEN <<>> ELSE Unwrap(built.rag_prompt) \o <<"\n">>)
    \o TrimEnd(built.context[1])

\* C31: a rewrite under SystemMessage for a chat model with a system prompt
\* changes position 0 only.  A first message that is a system message keeps
\* its place, its text (outer whitespace aside) followed by the optional
\* prompt and the context, the array as long as before and the other
\* messages as they were; otherwise a system message with the optional
\* prompt and the context is put first and the given messages follow.
C31_SystemMessageRewrite ==
  BuiltSystem =>
    LET old == built.messages
        new == chat_request.messages
    IN IF old[1].role = "system"
       THEN /\ Len(new) = Len(old)
            /\ new[1] = System(Trim(old[1].content) \o <<"\n">> \o PromptAndContext)
            /\ \A i \in 2..Len(old) : new[i] = old[i]
       ELSE /\ Len(new) = Len(old) + 1
            /\ new[1] = System(PromptAndContext)
            /\ \A i \in 1..Len(old) : new[i + 1] = old[i]

\* A system message was put before a conversation of three messages.
C31_Witness ==
  /\ BuiltSystem
  /\ Len(built.messages) = 3 /\ built.messages[1].role = "user"
  /\ built.rag_prompt # None
  /\ Len(chat_request.messages) = 4

\* What a dispatcher answers when the map never had a pool for its kind.
NeverCreatedResponse(h) ==
  [status |-> StatusOf(NoPoolError), msg |-> NoServerMsg(h),
   headers |-> IntoResponseHeaders]

\* C32: a kind whose pool was never created and a kind whose pool has become
\* empty look the same to a client: a request dispatched on an empty pool is
\* answered as it is without a pool, status and message, and a list() has an
\* entry for neither.
C32_AbsentPoolIsEmptyPool ==
  /\ [][\A t \in Tasks :
          (pc[t] = "idle" /\ op'[t] \in DispatchKinds /\ NoBackend(DispatchKind(op'[t])))
            => /\ pc'[t] = "done"
               /\ resp'[t] = NeverCreatedResponse(op'[t])]_vars
  /\ [](\A t \in Tasks :
          (op[t] = "list" /\ pc[t] = "done")
            => \A e \in listing[t] : ~NoBackend(e[1]))

\* The positions of pool k that hold the backend with base url `url`.
Holding(k, url) == {j \in 1..Len(Pool(k)) : Pool(k)[j].url = url}

TrimTrailingSlash(url) ==
  IF url # <<>> /\ url[Len(url)] = "/" THEN SubSeq(url, 1, Len(url) - 1) ELSE url

\* C34: for a backend registered with base url U, with a trailing slash or
\* without one, verify_server probes and the dispatchers forward to U
\* without its trailing slash, then "/" and the endpoint's sub-path.
C34_TrailingSlashNotSignificant ==
  /\ probe_url # <<>> =>
       \E path \in ProbePaths :
         probe_url = TrimTrailingSlash(server_url) \o <<"/", path>>
  /\ service_url # <<>> =>
       \E h \in DispatchKinds :
         service_url = TrimTrailingSlash(server_url) \o <<"/", ServicePath(h)>>

\* Register call t has returned success.
Registered(t) == op[t] = "register" /\ pc[t] = "done" /\ resp[t].status = 200

\* C35: once a register call has returned success, server_info has an entry
\* for the backend's id that holds the capabilities its /v1/info reported.
C35_RegisteredHasInfo ==
  \A t \in Tasks :
    Registered(t) =>
      /\ api_server[t].parsed
      /\ [id |-> arg[t].id, caps |-> api_server[t].caps] \in server_info

\* No handler is in the middle of a call.
Quiescent == \A t \in Tasks : pc[t] \in {"idle", "done"}

\* The ids server_info has an entry for.
InfoIds == {e.id : e \in server_info}

\* C36: the ids in server_info are the ids of the backends some pool holds:
\* no entry for a backend whose registration failed or that was
\* unregistered.  Stated for the states in which no call is under way.
C36_InfoMatchesPools ==
  Quiescent => InfoIds = AllIds(server_group)

\* Register call t is waiting for the backend's /v1/models response.
AwaitingModels(t) == op[t] = "register" /\ pc[t] = "models"

\* C38: a register call that waits for the backend's /v1/models response
\* holds no server_info lock, so that a reader of server_info is not kept
\* waiting by the probe.
C38_NoInfoLockAcrossIO ==
  \A t \in Tasks : AwaitingModels(t) => t \notin server_info_lock

\* Task t is in a call that has not returned.
Started(t) == pc[t] \notin {"idle", "done"}

\* The locks task t holds.
Holds(t) == {l \in {"server_group", "server_info"} :
               \/ l = "server_group" /\ t \in readers
               \/ l = "server_info" /\ t \in server_info_lock}

C39_EmptyContextForwardsInbound ==
  /\ [][(rag_pc = "merge" /\ ContextOf(retrieve_object_vec) = <<>>)
          => (rag_pc' = "chat" /\ UNCHANGED <<chat_request, built, rag_resp>>)]_vars
  /\ [][~built'.called => chat_request' = chat_request]_vars
  /\ [][(rag_pc = "chat" /\ calls' # calls)
          => calls' = Append(calls, Call("chat", chat_request.messages))]_vars

\* Two collections were searched, the first returned points, nothing was
\* left for the context, and the chat backend has answered.
C39_Witness ==
  /\ rag_pc = "done" /\ rag_resp.msg = "relayed"
  /\ Len(searched) = 2 /\ searched[1] # <<>>
  /\ ContextOf(retrieve_object_vec) = <<>>
  /\ ~built.called
  /\ calls[Len(calls)] = Call("chat", chat_request.messages)

\* What a search adds to the retrieved objects when the points without a
\* "source" are left out.
SkippingPoints(scored_points) ==
  LET kept == SelectSeq(scored_points, HasSource)
      r == RemoveDuplicated(RagScoredPoints(UniqueScoredPoints(kept, {})), source_set)
  IN IF r.points # <<>> THEN Append(retrieve_object_vec, r.points)
     ELSE retrieve_object_vec

\* C40: a point with no payload, or with a payload that has no "source",
\* does not abort the pipeline.  Whatever points a search returns, the
\* request is not dropped, the points without a source are left out and the
\* loop goes on to the next collection with the others.
C40_PointsWithoutSourceSkipped ==
  [][\A ps \in PointLists :
        RagSearched(TRUE, ps)
          => /\ rag_resp' # Panicked
             /\ rag_pc' = "retrieve"
             /\ retrieve_object_vec' = SkippingPoints(ps)]_vars

====
